---- MODULE Spec2Model ----
(***************************************************************************)
(* A model of the synth crate: the Engine (voices, selection, active       *)
(* count), the bounded control-message channel, the button and             *)
(* potentiometer tasks that feed it, and Engine::render, which drains the  *)
(* channel and writes stereo i16 frames into a byte buffer.                *)
(*                                                                         *)
(* f32 values are held in fixed point, in thousandths (Scale): 0.9 is 900. *)
(* Frequencies are held in whole Hz and ADC readings in whole millivolts.  *)
(* Option<u8> is a sequence: << >> is None and <<i>> is Some(i).           *)
(***************************************************************************)
EXTENDS Integers, Sequences, FiniteSets, TLC

\* ---------------------------------------------------------------- config.rs
VOICE_COUNT == 3
SAMPLE_RATE == 44100
VOLUME_SMOOTHING_COEFF == 990
STARTING_FREQUENCY == 77
DEFAULT_VOICE_VOLUME == 900
MASTER_GAIN == 850
WAVETABLE_SIZE == 1024
MESSAGE_QUEUE_SIZE == 8
ADC_MULTISAMPLING_COUNT == 9
ADC_EMA_ALPHA == 600
POT_MIN == 0
POT_MAX == 3156
POT_CHANGE_THRESHOLD == 1
FREQUENCY_MIN == 30
FREQUENCY_MAX == 1024
I16_MAX_F32 == 32767

\* ---------------------------------------------------------------- bounds
\* render is called with buffers of 0 .. MaxBufLen bytes
MaxBufLen == 9
\* render is called at most MaxRenders times
MaxRenders == 2
\* how many messages the producers can enqueue while one render call runs
\* (only in the specification that states fairness, FairSpec)
MaxSendsPerCall == 2
\* how many times the potentiometer task's timer fires (only in the
\* specification of the potentiometer task alone, SpecPot)
MaxPollCycles == 2

\* ---------------------------------------------------------------- arithmetic
\* one fixed-point unit: 1.0
Scale == 10 * 100

\* integer division that truncates toward zero, as an f32 -> integer cast does
TruncDiv(a, b) == IF a >= 0 THEN a \div b ELSE 0 - ((0 - a) \div b)

\* product and quotient of two fixed-point values
FMul(a, b) == TruncDiv(a * b, Scale)
FDiv(a, b) == TruncDiv(a * Scale, b)

Abs(a) == IF a >= 0 THEN a ELSE 0 - a

\* the f32 NaN: a value off the number line. In the code every ordered
\* comparison with it is false; the operators that can meet it test for it
NaN == 0 - Scale * Scale * Scale

\* f32::clamp(lo, hi): self < lo gives lo, self > hi gives hi, and anything
\* else, NaN included, is returned as it is
Clamp(x, lo, hi) ==
  IF x = NaN THEN NaN ELSE IF x < lo THEN lo ELSE IF x > hi THEN hi ELSE x

\* Option<u8>
None == << >>
Some(i) == << i >>

Voices == 0 .. (VOICE_COUNT - 1)

\* ---------------------------------------------------------------- message.rs
SelectVoice(i) == [kind |-> "SelectVoice", arg |-> i]
ToggleVoice(i) == [kind |-> "ToggleVoice", arg |-> i]
SetFrequency(f) == [kind |-> "SetFrequency", arg |-> f]
SetVolume(v) == [kind |-> "SetVolume", arg |-> v]

\* the value of last_applied before any message was applied
NoMessage == [kind |-> "none", arg |-> 0]


VARIABLES
  \* Engine (engine.rs:12-31)
  voices, selected_voice, active_count, active_count_reciprocal,
  \* the channel between the control tasks and the Engine
  queue,
  \* one call of Engine::render: where it is, the caller's buffer, the index
  \* of the next 4-byte chunk, and the value the last call returned
  render_pc, buffer, frame, ret,
  \* the control tasks
  button_pc, pot_pc, freq_pot, vol_pot, pot_msg,
  \* history: the message last passed to process_message, the accepted
  \* messages not yet applied (in acceptance order), the messages of the
  \* queue at the start of the call that the call has not applied yet, the
  \* length of the queue at the start of the call, the
  \* buffer as it was when the call started, the positions (from 0) of the
  \* bytes the call has written, the number of render calls made
  \* and the number of messages enqueued while the current call runs
  last_applied, pending, owed, entry_len, entry_buffer, written, renders,
  sends_in_call,
  \* history: the number of times the potentiometer task's timer has fired
  \* (counted only where the cycles are bounded)
  poll_cycles,
  \* one call of f32_to_i16_le: the sample passed in and what came of it
  enc_in, enc_out

engine_vars == <<voices, selected_voice, active_count, active_count_reciprocal>>
render_vars ==
  <<render_pc, buffer, frame, ret, owed, entry_len, entry_buffer, written, renders>>
encoder_vars == <<enc_in, enc_out>>
\* the control tasks, and the encoder that neither they nor the Engine call
task_vars ==
  <<button_pc, pot_pc, freq_pot, vol_pot, pot_msg, poll_cycles, encoder_vars>>
vars == <<voices, selected_voice, active_count, active_count_reciprocal, queue,
          render_pc, buffer, frame, ret, button_pc, pot_pc, freq_pot, vol_pot,
          pot_msg, last_applied, pending, owed, entry_len, entry_buffer, written,
          renders, sends_in_call, poll_cycles, enc_in, enc_out>>

\* ---------------------------------------------------------------- oscillator
\* one cycle of the wavetable, in thousandths: a sine, by Bhaskara's formula
Wavetable(idx) ==
  LET half == WAVETABLE_SIZE \div 2
      j == idx % half
      p == j * (half - j)
      v == (16 * p * Scale) \div (5 * half * half - 4 * p)
  IN  IF idx < half THEN v ELSE 0 - v

\* phase_increment = frequency * N / sample_rate, in thousandths of an index
PhaseIncrement(frequency) == (frequency * WAVETABLE_SIZE * Scale) \div SAMPLE_RATE

OscillatorNew(frequency) ==
  [frequency |-> frequency, phase_increment |-> PhaseIncrement(frequency),
   phase |-> 0]

OscSetFrequency(osc, hz) ==
  [osc EXCEPT !.frequency = hz, !.phase_increment = PhaseIncrement(hz)]

\* the oscillator after one tick, and the sample that tick returns
OscAdvance(osc) ==
  [osc EXCEPT !.phase = (osc.phase + osc.phase_increment) % (WAVETABLE_SIZE * Scale)]

OscSample(osc) == Wavetable((osc.phase \div Scale) % WAVETABLE_SIZE)

\* ---------------------------------------------------------------- audio_util.rs
\* what a call of the encoder comes to: nothing yet, two bytes, or a panic
NotEncoded == [kind |-> "none", bytes |-> << >>]
Encoded(bytes) == [kind |-> "bytes", bytes |-> bytes]
Panicked == [kind |-> "panic", bytes |-> << >>]

\* ---------------------------------------------------------------- voice.rs
VoiceNew(frequency) ==
  [osc |-> OscillatorNew(frequency),
   volume_target |-> DEFAULT_VOICE_VOLUME,
   volume_current |-> DEFAULT_VOICE_VOLUME,
   active |-> FALSE]

VoiceSetFrequency(v, freq) == [v EXCEPT !.osc = OscSetFrequency(v.osc, freq)]

VoiceSetVolume(v, vol) == [v EXCEPT !.volume_target = Clamp(vol, 0, Scale)]

\* a variant that restarts the voice: phase to 0, volume to its target
VoiceSetActiveRestarts(v, active) ==
  [v EXCEPT !.active = active, !.osc.phase = 0, !.volume_current = v.volume_target]

VoiceSetActive(v, active) == [v EXCEPT !.active = active]

\* a variant that weights the target with the coefficient itself
SmoothedVolumeBothK(v) ==
  FMul(v.volume_current, VOLUME_SMOOTHING_COEFF)
    + FMul(v.volume_target, VOLUME_SMOOTHING_COEFF)

\* volume_current after the smoothing step of one tick
SmoothedVolume(v) ==
  FMul(v.volume_current, VOLUME_SMOOTHING_COEFF)
    + FMul(v.volume_target, Scale - VOLUME_SMOOTHING_COEFF)

\* a variant that runs the volume smoothing whether active or not
VoiceTickStateSmoothsAlways(v) ==
  IF v.active
  THEN [v EXCEPT !.volume_current = SmoothedVolume(v), !.osc = OscAdvance(v.osc)]
  ELSE [v EXCEPT !.volume_current = SmoothedVolume(v)]

\* the voice after one tick
VoiceTickState(v) ==
  IF v.active
  THEN [v EXCEPT !.volume_current = SmoothedVolume(v), !.osc = OscAdvance(v.osc)]
  ELSE v

\* a variant that returns the oscillator's sample whether active or not
VoiceTickSampleUngated(v) == FMul(OscSample(OscAdvance(v.osc)), SmoothedVolume(v))

\* the sample that tick returns
VoiceTickSample(v) ==
  IF v.active
  THEN FMul(OscSample(OscAdvance(v.osc)), SmoothedVolume(v))
  ELSE 0

\* ---------------------------------------------------------------- engine.rs
\* voices.get_mut(id as usize) is Some
ValidIndex(id) == id < VOICE_COUNT

\* u32::saturating_sub
SaturatingSub(a, b) == IF a >= b THEN a - b ELSE 0

\* a variant that caches 0 when no voice is active
ReciprocalZeroWhenNone(count) == IF count > 0 THEN FDiv(Scale, count * Scale) ELSE 0

\* the cached reciprocal for a given active count (engine.rs:91-95)
Reciprocal(count) == IF count > 0 THEN FDiv(Scale, count * Scale) ELSE Scale

\* a variant that deselects the voice when it is selected again
SelectedAfterSelectDeselects(selected, id) ==
  IF selected = None THEN Some(id) ELSE IF selected = Some(id) THEN None ELSE selected

\* Message::SelectVoice(id): the selection after the message
SelectedAfterSelect(selected, id) ==
  IF selected = None THEN Some(id) ELSE selected

\* Message::ToggleVoice(idx): the voices and the count after the message
VoicesAfterToggle(vs, idx) ==
  IF ValidIndex(idx)
  THEN [vs EXCEPT ![idx] = VoiceSetActive(vs[idx], ~vs[idx].active)]
  ELSE vs

\* a variant that counts every toggle as a switch-on
CountAfterToggleUp(vs, count, idx) ==
  IF ValidIndex(idx) THEN count + 1 ELSE count

CountAfterToggle(vs, count, idx) ==
  IF ValidIndex(idx)
  THEN IF vs[idx].active THEN SaturatingSub(count, 1) ELSE count + 1
  ELSE count

ReciprocalAfterToggle(vs, count, recip, idx) ==
  IF ValidIndex(idx) THEN Reciprocal(CountAfterToggle(vs, count, idx)) ELSE recip

\* a variant that falls back to voice 0 when nothing is selected
VoicesAfterSetFrequencyDefault0(vs, selected, freq) ==
  LET idx == IF selected = None THEN 0 ELSE selected[1]
  IN  IF ValidIndex(idx)
      THEN [vs EXCEPT ![idx] = VoiceSetFrequency(vs[idx], freq)]
      ELSE vs

\* Message::SetFrequency(freq) and Message::SetVolume(vol): the voices after
VoicesAfterSetFrequency(vs, selected, freq) ==
  IF selected # None /\ ValidIndex(selected[1])
  THEN [vs EXCEPT ![selected[1]] = VoiceSetFrequency(vs[selected[1]], freq)]
  ELSE vs

\* a variant that sets the volume of every voice once one is selected
VoicesAfterSetVolumeAll(vs, selected, vol) ==
  IF selected # None /\ ValidIndex(selected[1])
  THEN [i \in Voices |-> VoiceSetVolume(vs[i], vol)]
  ELSE vs

VoicesAfterSetVolume(vs, selected, vol) ==
  IF selected # None /\ ValidIndex(selected[1])
  THEN [vs EXCEPT ![selected[1]] = VoiceSetVolume(vs[selected[1]], vol)]
  ELSE vs

\* Engine::process_message
ProcessMessage(msg) ==
  /\ selected_voice' =
       IF msg.kind = "SelectVoice"
       THEN SelectedAfterSelect(selected_voice, msg.arg)
       ELSE selected_voice
  /\ voices' =
       CASE msg.kind = "ToggleVoice" -> VoicesAfterToggle(voices, msg.arg)
         [] msg.kind = "SetFrequency" ->
              VoicesAfterSetFrequency(voices, selected_voice, msg.arg)
         [] msg.kind = "SetVolume" ->
              VoicesAfterSetVolume(voices, selected_voice, msg.arg)
         [] OTHER -> voices
  /\ active_count' =
       IF msg.kind = "ToggleVoice"
       THEN CountAfterToggle(voices, active_count, msg.arg)
       ELSE active_count
  /\ active_count_reciprocal' =
       IF msg.kind = "ToggleVoice"
       THEN ReciprocalAfterToggle(voices, active_count, active_count_reciprocal,
                                  msg.arg)
       ELSE active_count_reciprocal
  /\ last_applied' = msg

RECURSIVE SumSamples(_, _)
SumSamples(vs, n) ==
  IF n = 0 THEN 0 ELSE SumSamples(vs, n - 1) + VoiceTickSample(vs[n - 1])

\* Engine::tick: the voices after the tick and the mixed sample it returns
EngineTickVoices(vs) == [i \in Voices |-> VoiceTickState(vs[i])]

\* a variant that mixes without dividing by the number of active voices
EngineTickSampleUnnormalised(vs, recip) ==
  FMul(SumSamples(vs, VOICE_COUNT), MASTER_GAIN)

EngineTickSample(vs, recip) ==
  FMul(FMul(SumSamples(vs, VOICE_COUNT), recip), MASTER_GAIN)

\* a variant that encodes offset binary, where silence is the mid-scale value
SampleToOffsetBinary(sample) ==
  Clamp(TruncDiv(sample * I16_MAX_F32, Scale), 0 - 32768, 32767) + 32768

\* i16::to_le_bytes of (sample * I16_MAX_F32) as i16 (engine.rs:154-155); the
\* cast truncates toward zero and saturates at the i16 range
SampleToI16(sample) ==
  Clamp(TruncDiv(sample * I16_MAX_F32, Scale), 0 - 32768, 32767)

ToLeBytes(x) ==
  LET u == (x + 65536) % 65536
  IN  << u % 256, u \div 256 >>

\* the 4-byte stereo frame of one mixed sample (engine.rs:154-160)
FrameBytes(sample) ==
  LET bytes == ToLeBytes(SampleToI16(sample))
  IN  << bytes[1], bytes[2], bytes[1], bytes[2] >>

\* a variant that lets a buffer of 3 bytes through
TooSmallOffByOne(len) == len < 3

\* buffer.len() < 4 (engine.rs:139)
TooSmall(len) == len < 4

\* a variant that takes a buffer of exactly k frames for k - 1 frames
ChunkCountShort(len) == IF len = 0 THEN 0 ELSE (len - 1) \div 4

\* the number of chunks buffer.chunks_exact_mut(4) yields (engine.rs:153)
ChunkCount(len) == len \div 4

\* a variant that reports the whole buffer as written
ReturnValueWhole(len) == len

\* the value render returns (engine.rs:163)
ReturnValue(len) == len - (len % 4)

\* a variant that applies the newest message first
DrainStepNewest(q) == [msg |-> q[Len(q)], rest |-> SubSeq(q, 1, Len(q) - 1)]

\* a variant that takes two messages off the queue and applies the first
DrainStepSkips(q) == [msg |-> Head(q), rest |-> SubSeq(q, 3, Len(q))]

\* one turn of the drain loop (engine.rs:145-147): the message try_receive
\* hands out, which is the one process_message is called with, and the queue
\* that is left
DrainStep(q) == [msg |-> Head(q), rest |-> Tail(q)]

\* a variant that leaves the loop with one message still queued
DrainEndsEarly(q) == Len(q) <= 1

\* a variant that waits for a message instead of leaving the loop
DrainEndsNever(q) == FALSE

\* try_receive returns Err: the loop ends (engine.rs:145)
DrainEnds(q) == q = << >>

\* ---------------------------------------------------------------- channel
\* try_send fails, and send suspends, when the channel is full
Full(q) == Len(q) >= MESSAGE_QUEUE_SIZE

\* what the caller's buffer holds when render is called: n bytes left over
\* from earlier use
StaleBuffer(n) == [i \in 1 .. n |-> 255 - i]

\* ---------------------------------------------------------------- controls/pot.rs
PotentiometerNew ==
  [filtered |-> ((POT_MIN + POT_MAX) \div 2) * Scale, last_sent |-> 0]

\* f32 as u16: truncates and saturates
AsU16(x) == Clamp(TruncDiv(x, Scale), 0, 65535)

\* steps 1-3 of poll_and_send: nine samples of the same level, their mean, and
\* the EMA filter
Filtered(pot, reading) ==
  LET sum == ADC_MULTISAMPLING_COUNT * reading
      avg == sum \div ADC_MULTISAMPLING_COUNT
  IN  FMul(pot.filtered, ADC_EMA_ALPHA) + FMul(avg * Scale, Scale - ADC_EMA_ALPHA)

\* step 4: normalisation to 0.0 .. 1.0
Normalized(filtered) ==
  Clamp(FDiv(SaturatingSub(AsU16(filtered), POT_MIN), POT_MAX - POT_MIN), 0, Scale)

\* a variant without a deadband
PassesDeadbandAlways(normalized, last_sent) == TRUE

\* step 5: the deadband check
PassesDeadband(normalized, last_sent) ==
  Abs(normalized - last_sent) >= POT_CHANGE_THRESHOLD

map_freq(normalized) ==
  SetFrequency(FREQUENCY_MIN + FMul(normalized, FREQUENCY_MAX - FREQUENCY_MIN))

map_vol(normalized) == SetVolume(Clamp(normalized, 0, Scale))

\* the levels the ADC reads, in millivolts: the knobs rest at mid-travel
AdcReadings == {(POT_MIN + POT_MAX) \div 2}

\* the voices that have a button task
ButtonVoices == {0}

\* ---------------------------------------------------------------- Init
Init ==
  /\ voices = [i \in Voices |-> VoiceNew(STARTING_FREQUENCY)]
  /\ selected_voice = None
  /\ active_count = 0
  /\ active_count_reciprocal = Scale
  /\ queue = << >>
  /\ render_pc = "idle"
  /\ buffer = << >>
  /\ frame = 0
  /\ ret = 0
  /\ button_pc = [b \in ButtonVoices |-> "wait_low"]
  /\ pot_pc = "poll_freq"
  /\ freq_pot = PotentiometerNew
  /\ vol_pot = PotentiometerNew
  /\ pot_msg = NoMessage
  /\ last_applied = NoMessage
  /\ pending = << >>
  /\ owed = << >>
  /\ entry_len = 0
  /\ entry_buffer = << >>
  /\ written = {}
  /\ renders = 0
  /\ sends_in_call = 0
  /\ poll_cycles = 0
  /\ enc_in = 0
  /\ enc_out = NotEncoded

\* ---------------------------------------------------------------- the Engine alone
\* the indices a message can carry: the voices, VOICE_COUNT and u8::MAX
VoiceIds == Voices \cup {VOICE_COUNT, 255}

ApiMessages ==
  {SelectVoice(i) : i \in VoiceIds} \cup {ToggleVoice(i) : i \in VoiceIds}
    \cup {SetFrequency(f) : f \in {440}}
    \cup {SetVolume(v) : v \in {0 - 250, 500, 1250, NaN}}

\* a direct call of process_message, as a caller that owns the Engine makes it
CallProcessMessage(msg) ==
  /\ render_pc = "idle"
  /\ ProcessMessage(msg)
  /\ UNCHANGED <<queue, render_vars, task_vars, pending, sends_in_call>>

Next == \E msg \in ApiMessages : CallProcessMessage(msg)

Spec == Init /\ [][Next]_vars

\* ---------------------------------------------------------------- claims, Engine alone
IsParam(msg) == msg.kind \in {"SetFrequency", "SetVolume"}

ActiveVoices == {i \in Voices : voices[i].active}

\* C1: after process_message(SelectVoice(i)) with i < VOICE_COUNT the
\* selection is Some(i), whatever it was before.
C1_SelectOverwrites ==
  (last_applied.kind = "SelectVoice" /\ ValidIndex(last_applied.arg))
    => selected_voice = Some(last_applied.arg)

\* C2: a message with an out-of-range index changes nothing, so the selection
\* is always None or Some(i) with i < VOICE_COUNT.
C2_SelectionInRange ==
  selected_voice = None \/ ValidIndex(selected_voice[1])

\* C3: while nothing is selected, process_message(SetFrequency(f)) and
\* process_message(SetVolume(v)) leave every voice, the selection, the active
\* count and the reciprocal as they were.
C3_ParamNoOpWhenNone ==
  [][(selected_voice = None /\ IsParam(last_applied')
        /\ ProcessMessage(last_applied'))
      => UNCHANGED engine_vars]_vars

C3_Witness == selected_voice = None /\ IsParam(last_applied)

\* C4: active_count is the number of active voices, the cached reciprocal is
\* 1/active_count (1.0 when the count is 0), and a ToggleVoice(i) with valid i
\* flips voices[i].active alone and moves active_count by exactly one.
CountMatches ==
  /\ active_count = Cardinality(ActiveVoices)
  /\ active_count = 0 => active_count_reciprocal = Scale
  /\ active_count > 0 =>
       /\ active_count_reciprocal * active_count <= Scale
       /\ (active_count_reciprocal + 1) * active_count > Scale

ToggleFlipsOne ==
  (last_applied'.kind = "ToggleVoice" /\ ValidIndex(last_applied'.arg)
     /\ ProcessMessage(last_applied'))
  => /\ \A i \in Voices :
          voices'[i].active = (voices[i].active # (i = last_applied'.arg))
     /\ \A i \in Voices :
          voices'[i] = [voices[i] EXCEPT !.active = voices'[i].active]
     /\ active_count' =
          IF voices[last_applied'.arg].active
          THEN active_count - 1 ELSE active_count + 1

C4_ActiveCount == [](CountMatches) /\ [][ToggleFlipsOne]_vars

C4_Witness ==
  /\ last_applied.kind = "ToggleVoice" /\ ValidIndex(last_applied.arg)
  /\ ~voices[last_applied.arg].active
  /\ active_count = VOICE_COUNT - 1

\* ---------------------------------------------------------------- Engine::render
InCall == render_pc \in {"drain", "frames"}

\* render(buffer) is entered with a buffer of n bytes (engine.rs:138-141)
RenderEnter(n) ==
  /\ render_pc = "idle"
  /\ buffer' = StaleBuffer(n)
  /\ entry_buffer' = StaleBuffer(n)
  /\ written' = {}
  /\ frame' = 0
  /\ sends_in_call' = 0
  /\ IF TooSmall(n)
     THEN /\ render_pc' = "returned"
          /\ ret' = 0
          /\ owed' = << >>
          /\ entry_len' = 0
     ELSE /\ render_pc' = "drain"
          /\ ret' = ret
          /\ owed' = queue
          /\ entry_len' = Len(queue)
  /\ UNCHANGED <<engine_vars, queue, task_vars, last_applied, pending>>

\* one of the MaxRenders calls that are counted
RenderCall(n) ==
  /\ renders < MaxRenders
  /\ renders' = renders + 1
  /\ RenderEnter(n)

\* a variant that keeps polling the queue while the frames are generated
ReceivingInFrames(pc) == pc \in {"drain", "frames"}

\* where render calls try_receive: in the loop that runs ahead of the frame
\* loop, and nowhere else (engine.rs:145)
Receiving(pc) == pc = "drain"

\* try_receive returns Ok(msg): process_message(msg) (engine.rs:145-147)
RenderReceive ==
  /\ Receiving(render_pc)
  /\ ~DrainEnds(queue)
  /\ queue # << >>
  /\ LET step == DrainStep(queue)
     IN  /\ ProcessMessage(step.msg)
         /\ queue' = step.rest
         /\ owed' = IF owed # << >> /\ step.msg = Head(owed) THEN Tail(owed) ELSE owed
  /\ pending' = Tail(pending)
  /\ UNCHANGED <<render_pc, buffer, frame, ret, entry_len, entry_buffer, written,
                 renders, task_vars, sends_in_call>>

\* try_receive returns Err: the drain loop is left (engine.rs:145)
RenderDrained ==
  /\ render_pc = "drain"
  /\ DrainEnds(queue)
  /\ render_pc' = "frames"
  /\ UNCHANGED <<engine_vars, queue, buffer, frame, ret, owed, entry_len,
                 entry_buffer, written, renders, task_vars, last_applied, pending,
                 sends_in_call>>

\* one chunk of chunks_exact_mut(4): tick, convert, write (engine.rs:153-161)
RenderFrame ==
  /\ render_pc = "frames"
  /\ frame < ChunkCount(Len(buffer))
  /\ \E sample \in {EngineTickSample(voices, active_count_reciprocal)} :
       \E bytes \in {FrameBytes(sample)} :
         LET base == 4 * frame
         IN  /\ buffer' = [buffer EXCEPT
                             ![base + 1] = bytes[1], ![base + 2] = bytes[2],
                             ![base + 3] = bytes[3], ![base + 4] = bytes[4]]
             /\ written' = written \cup {base, base + 1, base + 2, base + 3}
  /\ voices' = EngineTickVoices(voices)
  /\ frame' = frame + 1
  /\ UNCHANGED <<selected_voice, active_count, active_count_reciprocal, queue,
                 render_pc, ret, owed, entry_len, entry_buffer, renders,
                 task_vars, last_applied, pending, sends_in_call>>

\* the chunks are exhausted: render returns (engine.rs:163)
RenderReturn ==
  /\ render_pc = "frames"
  /\ frame >= ChunkCount(Len(buffer))
  /\ ret' = ReturnValue(Len(buffer))
  /\ render_pc' = "returned"
  /\ UNCHANGED <<engine_vars, queue, buffer, frame, owed, entry_len, entry_buffer,
                 written, renders, task_vars, last_applied, pending, sends_in_call>>

\* the caller takes the returned count and the buffer away
CallerTakes ==
  /\ render_pc = "returned"
  /\ render_pc' = "idle"
  /\ buffer' = << >>
  /\ entry_buffer' = << >>
  /\ written' = {}
  /\ frame' = 0
  /\ ret' = 0
  /\ entry_len' = 0
  /\ sends_in_call' = 0
  /\ UNCHANGED <<engine_vars, queue, owed, renders, task_vars, last_applied,
                 pending>>

RenderStep == RenderReceive \/ RenderDrained \/ RenderFrame \/ RenderReturn

\* ---------------------------------------------------------------- controls/button.rs
\* the enqueue count of the running render call, after a step that changed the
\* queue from q to q2
CountSend(q, q2) ==
  IF InCall /\ Len(q2) > Len(q) THEN sends_in_call + 1 ELSE sends_in_call

\* a variant that goes round the loop without waiting for the release
AfterTrySendLoops(pc) == pc

\* where the button task waits after try_send: in wait_for_high (button.rs:33)
AfterTrySend(pc) == "wait_high"

\* a variant that sends what the task's doc comment names, a selection
ButtonMessageSelects(b) == SelectVoice(b)

\* the message of a press: Message::ToggleVoice(voice_idx) (button.rs:28)
ButtonMessage(b) == ToggleVoice(b)

\* wait_for_low returns, then try_send(ToggleVoice(voice_idx)); a full queue
\* drops the message with a warning (button.rs:25-30)
ButtonPress(b) ==
  /\ button_pc[b] = "wait_low"
  /\ queue' = IF Full(queue) THEN queue ELSE Append(queue, ButtonMessage(b))
  /\ pending' = IF Full(queue) THEN pending ELSE Append(pending, ButtonMessage(b))
  /\ button_pc' = [button_pc EXCEPT ![b] = AfterTrySend(button_pc[b])]
  /\ UNCHANGED <<engine_vars, render_vars, pot_pc, freq_pot, vol_pot, pot_msg,
                 last_applied>>

\* wait_for_high returns (button.rs:33)
ButtonRelease(b) ==
  /\ button_pc[b] = "wait_high"
  /\ button_pc' = [button_pc EXCEPT ![b] = "wait_low"]
  /\ UNCHANGED <<engine_vars, render_vars, queue, pot_pc, freq_pot, vol_pot,
                 pot_msg, last_applied, pending>>

\* ---------------------------------------------------------------- controls/task.rs
\* where the potentiometer task goes after the poll_and_send of one pot
AfterPoll(pc) == IF pc \in {"poll_freq", "send_freq"} THEN "poll_vol" ELSE "sleep"

\* a variant that gives the message up and moves on when the queue is full
SuspendedGivesUp(pc) == AfterPoll(pc)

Suspended(pc) == IF pc = "poll_freq" THEN "send_freq" ELSE "send_vol"

\* poll_and_send of one potentiometer up to its first suspension
\* (pot.rs:72-92): read, filter, normalise, deadband, and sender.send(..).await,
\* which enqueues at once when there is room and suspends the task otherwise;
\* mapped is (self.map_fn)(normalized), the message of the normalised reading
PollAndSend(pot, mapped, reading, pot2) ==
  LET filtered == Filtered(pot, reading)
      normalized == Normalized(filtered)
  IN  IF PassesDeadband(normalized, pot.last_sent)
      THEN /\ pot2 = [filtered |-> filtered, last_sent |-> normalized]
           /\ IF Full(queue)
              THEN /\ pot_msg' = mapped
                   /\ pot_pc' = Suspended(pot_pc)
                   /\ UNCHANGED <<queue, pending>>
              ELSE /\ queue' = Append(queue, mapped)
                   /\ pending' = Append(pending, mapped)
                   /\ pot_pc' = AfterPoll(pot_pc)
                   /\ UNCHANGED pot_msg
      ELSE /\ pot2 = [pot EXCEPT !.filtered = filtered]
           /\ pot_pc' = AfterPoll(pot_pc)
           /\ UNCHANGED <<queue, pending, pot_msg>>

PotPollFreq(reading) ==
  /\ pot_pc = "poll_freq"
  /\ PollAndSend(freq_pot, map_freq(Normalized(Filtered(freq_pot, reading))),
                 reading, freq_pot')
  /\ UNCHANGED <<engine_vars, render_vars, button_pc, vol_pot, last_applied>>

PotPollVol(reading) ==
  /\ pot_pc = "poll_vol"
  /\ PollAndSend(vol_pot, map_vol(Normalized(Filtered(vol_pot, reading))),
                 reading, vol_pot')
  /\ UNCHANGED <<engine_vars, render_vars, button_pc, freq_pot, last_applied>>

\* a suspended send completes once the queue has room (pot.rs:91)
PotSendCompletes ==
  /\ pot_pc \in {"send_freq", "send_vol"}
  /\ ~Full(queue)
  /\ queue' = Append(queue, pot_msg)
  /\ pending' = Append(pending, pot_msg)
  /\ pot_msg' = NoMessage
  /\ pot_pc' = AfterPoll(pot_pc)
  /\ UNCHANGED <<engine_vars, render_vars, button_pc, freq_pot, vol_pot,
                 last_applied>>

\* Timer::after(ADC_POLL_INTERVAL_MS) fires (task.rs:46)
PotTimer ==
  /\ pot_pc = "sleep"
  /\ pot_pc' = "poll_freq"
  /\ UNCHANGED <<engine_vars, render_vars, queue, button_pc, freq_pot, vol_pot,
                 pot_msg, last_applied, pending>>

\* ---------------------------------------------------------------- the potentiometer task alone
\* the levels the ADC reads while a knob is turned: rest, a touch, a turn
PotReadings ==
  {(POT_MIN + POT_MAX) \div 2, (POT_MIN + POT_MAX) \div 2 + 2,
   (POT_MIN + POT_MAX) \div 2 + 40}

\* pot_task for MaxPollCycles further cycles, with nothing taking from the
\* channel
NextPot ==
  \/ \E r \in PotReadings : PotPollFreq(r) /\ UNCHANGED <<sends_in_call, poll_cycles, encoder_vars>>
  \/ \E r \in PotReadings : PotPollVol(r) /\ UNCHANGED <<sends_in_call, poll_cycles, encoder_vars>>
  \/ /\ poll_cycles < MaxPollCycles
     /\ PotTimer
     /\ poll_cycles' = poll_cycles + 1
     /\ UNCHANGED <<sends_in_call, encoder_vars>>

SpecPot == Init /\ [][NextPot]_vars

\* ---------------------------------------------------------------- the system
\* the buffer lengths of the render calls: too small, one frame, two frames
SysBufLens == {3, 8}

\* every length from empty to MaxBufLen
BufLens == 0 .. MaxBufLen

\* the control tasks and the render calls, interleaved freely
NextSys ==
  \/ \E n \in SysBufLens : RenderCall(n)
  \/ RenderReceive
  \/ RenderDrained
  \/ RenderFrame
  \/ RenderReturn
  \/ CallerTakes
  \/ \E b \in ButtonVoices : ButtonPress(b) /\ UNCHANGED <<sends_in_call, poll_cycles, encoder_vars>>
  \/ \E b \in ButtonVoices : ButtonRelease(b) /\ UNCHANGED <<sends_in_call, poll_cycles, encoder_vars>>
  \/ \E r \in AdcReadings : PotPollFreq(r) /\ UNCHANGED <<sends_in_call, poll_cycles, encoder_vars>>
  \/ \E r \in AdcReadings : PotPollVol(r) /\ UNCHANGED <<sends_in_call, poll_cycles, encoder_vars>>
  \/ PotSendCompletes /\ UNCHANGED <<sends_in_call, poll_cycles, encoder_vars>>
  \/ PotTimer /\ UNCHANGED <<sends_in_call, poll_cycles, encoder_vars>>

SpecSys == Init /\ [][NextSys]_vars

\* render calls of every length, with the button task as the only producer
NextRender ==
  \/ \E n \in BufLens : RenderCall(n)
  \/ RenderReceive
  \/ RenderDrained
  \/ RenderFrame
  \/ RenderReturn
  \/ CallerTakes
  \/ \E b \in ButtonVoices : ButtonPress(b) /\ UNCHANGED <<sends_in_call, poll_cycles, encoder_vars>>
  \/ \E b \in ButtonVoices : ButtonRelease(b) /\ UNCHANGED <<sends_in_call, poll_cycles, encoder_vars>>

SpecRender == Init /\ [][NextRender]_vars

\* the render calls and a button task that enqueues at most MaxSendsPerCall
\* messages while one render call runs. render is straight-line synchronous
\* code: once called it keeps taking steps until it returns, which is the
\* weak fairness of RenderStep
MaySend == ~InCall \/ sends_in_call < MaxSendsPerCall

Counted == sends_in_call' = CountSend(queue, queue')

NextFair ==
  \/ \E n \in SysBufLens : RenderCall(n)
  \/ RenderReceive
  \/ RenderDrained
  \/ RenderFrame
  \/ RenderReturn
  \/ CallerTakes
  \/ \E b \in ButtonVoices : MaySend /\ ButtonPress(b) /\ Counted /\ UNCHANGED <<poll_cycles, encoder_vars>>
  \/ \E b \in ButtonVoices : ButtonRelease(b) /\ UNCHANGED <<sends_in_call, poll_cycles, encoder_vars>>

FairSpec == Init /\ [][NextFair]_vars /\ WF_vars(RenderStep)

\* ---------------------------------------------------------------- claims, render
\* C5: in a render call with at least 4 bytes, every message that was in the
\* queue when the call started has been applied before the first sample is
\* generated.
C5_DrainedBeforeSamples ==
  (render_pc = "frames" \/ written # {}) => owed = << >>

C5_Witness ==
  /\ render_pc = "frames" /\ frame = 1 /\ written # {}
  /\ entry_len >= 2

\* C6: a control task that tries to enqueue into a full queue has its message
\* discarded: the queue is unchanged and the task is not suspended in send.
TriesToEnqueue ==
  \/ \E b \in ButtonVoices : button_pc[b] = "wait_low" /\ button_pc'[b] = "wait_high"
  \/ freq_pot'.last_sent # freq_pot.last_sent
  \/ vol_pot'.last_sent # vol_pot.last_sent

C6_FullQueueDrops ==
  [][(Full(queue) /\ TriesToEnqueue)
      => /\ queue' = queue
         /\ pot_pc' \notin {"send_freq", "send_vol"}
         /\ pot_msg' = NoMessage]_vars

\* C7: render returns 0 for a buffer shorter than 4 bytes and otherwise a
\* multiple of 4 that is at most the buffer length, and it writes whole frames
\* only.
C7_ReturnsWholeFrames ==
  render_pc = "returned" =>
    /\ Len(buffer) < 4 => ret = 0
    /\ ret % 4 = 0
    /\ ret <= Len(buffer)
    /\ \A p \in written :
         /\ p < Len(buffer)
         /\ \A k \in 0 .. 3 : 4 * (p \div 4) + k \in written

C7_Witness ==
  render_pc = "returned" /\ Len(buffer) = 7 /\ ret = 4 /\ written # {}

\* C8: for a buffer of n >= 4 bytes render returns n - (n mod 4), writes the
\* bytes at positions 0 .. n - (n mod 4) - 1 and no others, and leaves the
\* trailing n mod 4 bytes as they were.
C8_WritesPrefixOnly ==
  (render_pc = "returned" /\ Len(buffer) >= 4) =>
    LET n == Len(buffer)
    IN  /\ ret = n - (n % 4)
        /\ written = 0 .. (n - (n % 4) - 1)
        /\ \A p \in (n - (n % 4)) .. (n - 1) : buffer[p + 1] = entry_buffer[p + 1]

C8_Witness ==
  /\ render_pc = "returned" /\ Len(buffer) = MaxBufLen /\ written # {}
  /\ \E p \in written : buffer[p + 1] # entry_buffer[p + 1]

\* C9: a render call never waits on the queue and always returns: with an
\* empty queue, with a full queue, and with producers that enqueue a bounded
\* number of messages while the call runs.
C9_RenderTerminates ==
  /\ [](InCall => ENABLED RenderStep)
  /\ InCall ~> (render_pc = "returned")

C9_Witness ==
  /\ render_pc = "returned"
  /\ entry_len = MESSAGE_QUEUE_SIZE
  /\ sends_in_call = MaxSendsPerCall

\* C10: messages are applied in the order in which the queue accepted them:
\* the message process_message is called with is always the oldest accepted
\* message that has not been applied yet.
C10_AppliedInOrder ==
  [][Len(pending') < Len(pending)
      => /\ last_applied' = Head(pending)
         /\ ProcessMessage(Head(pending))
         /\ pending' = Tail(pending)]_vars

C10_Witness ==
  /\ render_pc = "drain"
  /\ last_applied.kind = "ToggleVoice"
  /\ pending # << >> /\ Head(pending).kind = "SetFrequency"
  /\ Len(pending) >= 2 /\ pending[2].kind = "ToggleVoice"

\* C11: every accepted message is passed to process_message exactly once. The
\* accepted messages that have not been applied are exactly the contents of
\* the queue, in order (none lost, none applied and still queued); each
\* process_message call of render takes exactly one of them; and a render
\* call with at least 4 bytes leaves its drain only when none is left.
C11_ExactlyOnce ==
  /\ [](queue = pending)
  /\ [][/\ last_applied' # last_applied => Len(pending') = Len(pending) - 1
        /\ (render_pc = "drain" /\ render_pc' = "frames") => pending = << >>]_vars

C11_Witness ==
  /\ render_pc = "returned" /\ ret >= 4
  /\ entry_len = MESSAGE_QUEUE_SIZE
  /\ pending = << >>
  /\ last_applied.kind = "SetVolume"

\* ---------------------------------------------------------------- the Engine played
\* a caller that owns the Engine applies messages directly between render
\* calls; no control task runs, so every drain finds the queue empty
PlayMessages ==
  {SelectVoice(1), ToggleVoice(0), ToggleVoice(1), SetFrequency(440),
   SetVolume(500)}

NextPlay ==
  \/ \E msg \in PlayMessages : CallProcessMessage(msg)
  \/ \E n \in BufLens : RenderCall(n)
  \/ RenderDrained
  \/ RenderFrame
  \/ RenderReturn
  \/ CallerTakes

SpecPlay == Init /\ [][NextPlay]_vars

\* ---------------------------------------------------------------- claims, quantisation
\* the parameters a message can set: frequency, volume target, active flag
Params(v) ==
  [frequency |-> v.osc.frequency, phase_increment |-> v.osc.phase_increment,
   volume_target |-> v.volume_target, active |-> v.active]

\* C12: once the drain of a render call has ended, no message is applied
\* until the call is over: every sample of the buffer is generated with the
\* parameters, active flags and selection of the end of the drain, and a
\* message enqueued meanwhile stays queued for the next call.
C12_QuantisedToBuffers ==
  [][(render_pc \in {"frames", "returned"})
      => /\ last_applied' = last_applied
         /\ selected_voice' = selected_voice
         /\ active_count' = active_count
         /\ active_count_reciprocal' = active_count_reciprocal
         /\ \A i \in Voices : Params(voices'[i]) = Params(voices[i])
         /\ Len(pending') >= Len(pending)
         /\ SubSeq(pending', 1, Len(pending)) = pending]_vars

C12_Witness ==
  /\ render_pc = "returned" /\ ret = 8
  /\ entry_len >= 1
  /\ ActiveVoices # {}
  /\ Len(pending) >= 2

\* ---------------------------------------------------------------- claims, voices
\* C13: a voice that is switched off returns exactly 0.0 from every tick,
\* whatever its frequency, phase and volume, and it stays switched off until a
\* ToggleVoice for it is applied.
C13_InactiveTicksZero ==
  /\ [](\A i \in Voices : ~voices[i].active => VoiceTickSample(voices[i]) = 0)
  /\ [][\A i \in Voices :
          voices'[i].active # voices[i].active => last_applied' = ToggleVoice(i)]_vars

C13_Witness ==
  /\ render_pc = "frames" /\ frame = 1
  /\ ~voices[1].active
  /\ voices[1].osc.phase # 0
  /\ voices[1].osc.frequency # STARTING_FREQUENCY
  /\ voices[1].volume_current # 0
  /\ OscSample(OscAdvance(voices[1].osc)) # 0

\* C14: while no voice is active, every byte that render writes is zero,
\* for every buffer length and whatever SelectVoice, SetFrequency and
\* SetVolume messages were applied before.
C14_SilentWhenNoneActive ==
  (render_pc \in {"frames", "returned"} /\ ActiveVoices = {})
    => \A p \in written : buffer[p + 1] = 0

C14_Witness ==
  /\ render_pc = "returned" /\ Len(buffer) = MaxBufLen
  /\ written = 0 .. (ret - 1) /\ ret >= 8
  /\ \A i \in Voices : ~voices[i].active /\ voices[i].osc.phase = 0
  /\ selected_voice = Some(1)
  /\ voices[1].osc.frequency = 440
  /\ voices[1].volume_target = 500

\* ---------------------------------------------------------------- claims, potentiometer
\* the step hands a message to the channel: it is enqueued, or the task is
\* suspended in send holding it
HandsOver ==
  \/ Len(pending') > Len(pending)
  \/ pot_msg = NoMessage /\ pot_msg' # NoMessage

\* one poll that takes the potentiometer from pot to pot2
DeadbandKept(pot, pot2) ==
  LET before == Normalized(pot.filtered)
      normalized == Normalized(pot2.filtered)
  IN  /\ HandsOver <=> Abs(normalized - pot.last_sent) >= POT_CHANGE_THRESHOLD
      /\ pot2.last_sent # pot.last_sent => HandsOver
      /\ pot2.last_sent = IF HandsOver THEN normalized ELSE pot.last_sent
      /\ (pot.last_sent = before
            /\ Abs(normalized - before) < POT_CHANGE_THRESHOLD) => ~HandsOver

DirectCall == render_pc = "idle" /\ render_pc' = "idle"

\* C16: with a valid voice i selected, SetFrequency(f) changes the frequency
\* of voice i and nothing else, and SetVolume(v) changes the volume target of
\* voice i and nothing else: the other voices, every active flag, the
\* selection, the active count and the reciprocal stay as they were.
C16_ParamTouchesSelectedOnly ==
  [][(DirectCall /\ IsParam(last_applied')
        /\ selected_voice # None /\ ValidIndex(selected_voice[1]))
      => LET i == selected_voice[1]
             msg == last_applied'
         IN  /\ UNCHANGED <<selected_voice, active_count, active_count_reciprocal>>
             /\ \A j \in Voices \ {i} : voices'[j] = voices[j]
             /\ msg.kind = "SetFrequency" =>
                  /\ voices'[i].osc.frequency = msg.arg
                  /\ voices'[i] =
                       [voices[i] EXCEPT !.osc.frequency = msg.arg,
                          !.osc.phase_increment = voices'[i].osc.phase_increment]
             /\ msg.kind = "SetVolume" =>
                  voices'[i] =
                    [voices[i] EXCEPT !.volume_target = voices'[i].volume_target]]_vars

C16_Witness ==
  /\ render_pc = "idle"
  /\ last_applied = SetVolume(500)
  /\ selected_voice = Some(1)
  /\ voices[1].volume_target = 500
  /\ voices[1].osc.frequency = 440
  /\ voices[0].active /\ voices[0].osc.phase # 0
  /\ voices[0].volume_target = DEFAULT_VOICE_VOLUME

\* ---------------------------------------------------------------- claims, ticks
\* a step in which Engine::tick runs once
Ticks == frame' = frame + 1

\* C17: every tick of the engine advances the oscillator phase of every
\* voice, active or not.
C17_PhaseAdvancesWhileInactive ==
  [][Ticks => \A i \in Voices : voices'[i].osc = OscAdvance(voices[i].osc)]_vars

\* C18: a tick of an inactive voice returns 0.0 and leaves volume_current as
\* it was, and so does every message: volume_current moves only in a tick of
\* an active voice, so after a SetVolume on an inactive voice it starts to
\* move at the first tick after the voice is switched on.
C18_InactiveKeepsVolumeCurrent ==
  [][\A i \in Voices :
       /\ (Ticks /\ ~voices[i].active) =>
            /\ VoiceTickSample(voices[i]) = 0
            /\ voices'[i].volume_current = voices[i].volume_current
       /\ voices'[i].volume_current # voices[i].volume_current =>
            (Ticks /\ voices[i].active)]_vars

C18_Witness ==
  /\ render_pc = "frames" /\ frame >= 1
  /\ selected_voice = Some(1)
  /\ ~voices[1].active
  /\ voices[1].volume_target = 500
  /\ voices[1].volume_current = DEFAULT_VOICE_VOLUME
  /\ voices[0].active /\ voices[0].osc.phase # 0

\* a volume within [0, 1]
InUnitRange(x) == x # NaN /\ x >= 0 /\ x <= Scale

\* C19: set_volume(v) stores, for every input v, a volume_target within
\* [0, 1] (0 for v below 0, 1 for v above 1, v itself in between) and leaves
\* volume_current, the active flag and the oscillator as they were; so
\* volume_target is within [0, 1] in every state.
C19_VolumeTargetClamped ==
  /\ [](\A i \in Voices : InUnitRange(voices[i].volume_target))
  /\ [][(last_applied'.kind = "SetVolume"
           /\ selected_voice # None /\ ValidIndex(selected_voice[1]))
        => LET v == last_applied'.arg
               i == selected_voice[1]
           IN  /\ InUnitRange(voices'[i].volume_target)
               /\ v # NaN => voices'[i].volume_target =
                               CASE v < 0 -> 0
                                 [] v > Scale -> Scale
                                 [] OTHER -> v
               /\ voices'[i] =
                    [voices[i] EXCEPT !.volume_target = voices'[i].volume_target]]_vars

\* C20: ToggleVoice(i), through set_active, changes the active flag of voice
\* i and nothing else of it: frequency, oscillator phase, volume_target and
\* volume_current are the same after the message as before.
C20_ToggleKeepsVoiceState ==
  [][(DirectCall /\ last_applied'.kind = "ToggleVoice"
        /\ ValidIndex(last_applied'.arg))
      => LET i == last_applied'.arg
         IN  /\ voices'[i].active # voices[i].active
             /\ voices'[i].osc = voices[i].osc
             /\ voices'[i].volume_target = voices[i].volume_target
             /\ voices'[i].volume_current = voices[i].volume_current]_vars

C20_Witness ==
  /\ render_pc = "idle"
  /\ last_applied = ToggleVoice(1)
  /\ voices[1].active
  /\ voices[1].osc.phase # 0
  /\ voices[1].osc.frequency = 440
  /\ voices[1].volume_current # voices[1].volume_target
  /\ voices[1].volume_current # DEFAULT_VOICE_VOLUME

\* ---------------------------------------------------------------- the smoothing alone
\* the volumes a voice starts from, and the targets it is left to approach
SmoothStarts == {0, 300, 505, 900, Scale}
SmoothTargets == {0, 505, 900, Scale}

\* voice 0 selected, switched on and tuned to 0 Hz, so that a tick moves its
\* volume and nothing else, with the last SetVolume already applied
InitSmooth ==
  /\ \E c \in SmoothStarts, t \in SmoothTargets :
       /\ voices =
            [i \in Voices |->
               IF i = 0
               THEN [VoiceSetActive(VoiceSetFrequency(VoiceNew(STARTING_FREQUENCY), 0),
                                    TRUE)
                       EXCEPT !.volume_current = c, !.volume_target = t]
               ELSE VoiceNew(STARTING_FREQUENCY)]
       /\ last_applied = SetVolume(t)
  /\ selected_voice = Some(0)
  /\ active_count = 1
  /\ active_count_reciprocal = Reciprocal(1)
  /\ queue = << >>
  /\ render_pc = "idle"
  /\ buffer = << >>
  /\ frame = 0
  /\ ret = 0
  /\ button_pc = [b \in ButtonVoices |-> "wait_low"]
  /\ pot_pc = "poll_freq"
  /\ freq_pot = PotentiometerNew
  /\ vol_pot = PotentiometerNew
  /\ pot_msg = NoMessage
  /\ pending = << >>
  /\ owed = << >>
  /\ entry_len = 0
  /\ entry_buffer = << >>
  /\ written = {}
  /\ renders = 0
  /\ sends_in_call = 0
  /\ poll_cycles = 0
  /\ enc_in = 0
  /\ enc_out = NotEncoded

\* a direct call of Engine::tick (engine.rs:121-126); the sample it returns
\* is dropped
CallTick ==
  /\ render_pc = "idle"
  /\ voices' = EngineTickVoices(voices)
  /\ UNCHANGED <<selected_voice, active_count, active_count_reciprocal, queue,
                 render_vars, task_vars, last_applied, pending, sends_in_call>>

NextSmooth == CallTick

\* the ticks go on for as long as they change anything
SmoothSpec == InitSmooth /\ [][NextSmooth]_vars /\ WF_vars(CallTick)

\* ---------------------------------------------------------------- claims, smoothing
\* the distance of voice i's volume from its target
Distance(v) == Abs(v.volume_current - v.volume_target)

\* how close the smoothing is sure to come: each of the two products is
\* rounded by less than one unit of the arithmetic, and a tick closes the
\* fraction 1 - k of the distance, so the ticks keep gaining ground while the
\* distance is at least two units over 1 - k
SmoothingTolerance == (2 * Scale) \div (Scale - VOLUME_SMOOTHING_COEFF)

Emits(b) ==
  /\ Len(queue') > Len(queue)
  /\ queue'[Len(queue')] = ToggleVoice(b)

\* wait_for_low returns in this step: the task has seen a press
PressEdge(b) == button_pc[b] = "wait_low" /\ button_pc'[b] = "wait_high"

\* wait_for_high returns in this step: the task has seen the release
ReleaseEdge(b) == button_pc[b] = "wait_high" /\ button_pc'[b] = "wait_low"

\* C22: a button task emits at most one message per press: a message of
\* button b enters the queue only in the step in which the task sees a press,
\* that step adds at most one message, and having emitted or dropped it the
\* task adds nothing until it has seen the release and then a new press.
C22_OneMessagePerPress ==
  [][\A b \in ButtonVoices :
       /\ Emits(b) => PressEdge(b)
       /\ PressEdge(b) =>
            /\ Len(queue') <= Len(queue) + 1
            /\ Full(queue) => queue' = queue
       /\ button_pc[b] = "wait_high" => ~Emits(b)
       /\ button_pc[b] = "wait_high" /\ button_pc'[b] # button_pc[b]
            => ReleaseEdge(b) /\ queue' = queue
       /\ button_pc[b] = "wait_low" /\ button_pc'[b] # button_pc[b]
            => PressEdge(b)]_vars

C22_Witness ==
  /\ button_pc[0] = "wait_high"
  /\ Len(queue) >= 2
  /\ queue[Len(queue)] = ToggleVoice(0)
  /\ queue[Len(queue) - 1] = ToggleVoice(0)

\* ---------------------------------------------------------------- the mix alone
\* the phases from which the next tick reads the crest and the trough of the
\* wavetable, at the starting frequency
MixPhases ==
  {(WAVETABLE_SIZE \div 4) * Scale - PhaseIncrement(STARTING_FREQUENCY),
   (3 * (WAVETABLE_SIZE \div 4)) * Scale - PhaseIncrement(STARTING_FREQUENCY)}

\* the volumes of the voices: silent, the default, full
MixVolumes == {0, DEFAULT_VOICE_VOLUME, Scale}

MixVoice(a, p, vol) ==
  [VoiceSetActive(VoiceNew(STARTING_FREQUENCY), a)
     EXCEPT !.osc.phase = p, !.volume_current = vol, !.volume_target = vol]

MixCount(vs) == Cardinality({i \in Voices : vs[i].active})

\* an Engine whose voices have been toggled, set to a volume and played up
\* to a crest or a trough, with the queue empty
InitMix ==
  /\ \E a \in [Voices -> BOOLEAN], p \in [Voices -> MixPhases],
        vol \in [Voices -> MixVolumes] :
       /\ voices = [i \in Voices |-> MixVoice(a[i], p[i], vol[i])]
       /\ active_count = MixCount(voices)
       /\ active_count_reciprocal = Reciprocal(MixCount(voices))
  /\ selected_voice = None
  /\ queue = << >>
  /\ render_pc = "idle"
  /\ buffer = << >>
  /\ frame = 0
  /\ ret = 0
  /\ button_pc = [b \in ButtonVoices |-> "wait_low"]
  /\ pot_pc = "poll_freq"
  /\ freq_pot = PotentiometerNew
  /\ vol_pot = PotentiometerNew
  /\ pot_msg = NoMessage
  /\ last_applied = NoMessage
  /\ pending = << >>
  /\ owed = << >>
  /\ entry_len = 0
  /\ entry_buffer = << >>
  /\ written = {}
  /\ renders = 0
  /\ sends_in_call = 0
  /\ poll_cycles = 0
  /\ enc_in = 0
  /\ enc_out = NotEncoded

NextMix ==
  \/ \E n \in BufLens : RenderCall(n)
  \/ RenderDrained
  \/ RenderFrame
  \/ RenderReturn
  \/ CallerTakes

SpecMix == InitMix /\ [][NextMix]_vars

\* ---------------------------------------------------------------- claims, mix
\* the i16 that two little-endian bytes stand for
FromLeBytes(lo, hi) ==
  LET u == lo + 256 * hi
  IN  IF u >= 32768 THEN u - 65536 ELSE u

\* the frames written so far in the running render call
WrittenFrames == {f \in 0 .. MaxBufLen : 4 * f \in written}

\* the largest encoded magnitude: (MASTER_GAIN * I16_MAX_F32) as i16
MaxEncoded == TruncDiv(MASTER_GAIN * I16_MAX_F32, Scale)

\* C23: every frame written carries the same 16-bit sample on the left and
\* on the right, and the magnitude of that sample is at most MASTER_GAIN
\* times 32767, for any number of active voices.
C23_StereoAndBounded ==
  \A f \in WrittenFrames :
    /\ buffer[4 * f + 1] = buffer[4 * f + 3]
    /\ buffer[4 * f + 2] = buffer[4 * f + 4]
    /\ Abs(FromLeBytes(buffer[4 * f + 1], buffer[4 * f + 2])) <= MaxEncoded

C23_Witness ==
  /\ render_pc = "returned"
  /\ ActiveVoices = Voices
  /\ WrittenFrames = {0, 1}
  /\ FromLeBytes(buffer[1], buffer[2]) < 0 - (MaxEncoded - 100)
  /\ buffer[3] = buffer[1] /\ buffer[4] = buffer[2]

\* ---------------------------------------------------------------- the encoder alone
\* the range the encoder asserts: (-1. ..=1.).contains(&sample)
\* (audio_util.rs:14); NaN is in no range
InEncoderRange(x) == x # NaN /\ x >= 0 - Scale /\ x <= Scale

\* (sample * (i16::MAX as f32)) as i16 (audio_util.rs:15): the cast truncates
\* toward zero, saturates at the i16 range and takes NaN to 0
EncoderCast(x) == IF x = NaN THEN 0 ELSE SampleToI16(x)

\* f32_to_i16_le (audio_util.rs:12-17). debug_assert! is compiled in when the
\* build has debug assertions on and then panics on a sample out of range; a
\* build without them goes straight to the cast
F32ToI16Le(x, debug_assertions) ==
  IF debug_assertions /\ ~InEncoderRange(x)
  THEN Panicked
  ELSE Encoded(ToLeBytes(EncoderCast(x)))

\* the samples handed to the encoder: from -2.0 to 2.0, and NaN
EncoderSamples == {25 * n - 2 * Scale : n \in 0 .. 160} \cup {NaN}

InitEncode ==
  /\ voices = [i \in Voices |-> VoiceNew(STARTING_FREQUENCY)]
  /\ selected_voice = None
  /\ active_count = 0
  /\ active_count_reciprocal = Scale
  /\ queue = << >>
  /\ render_pc = "idle"
  /\ buffer = << >>
  /\ frame = 0
  /\ ret = 0
  /\ button_pc = [b \in ButtonVoices |-> "wait_low"]
  /\ pot_pc = "poll_freq"
  /\ freq_pot = PotentiometerNew
  /\ vol_pot = PotentiometerNew
  /\ pot_msg = NoMessage
  /\ last_applied = NoMessage
  /\ pending = << >>
  /\ owed = << >>
  /\ entry_len = 0
  /\ entry_buffer = << >>
  /\ written = {}
  /\ renders = 0
  /\ sends_in_call = 0
  /\ poll_cycles = 0
  /\ enc_in \in EncoderSamples
  /\ enc_out = NotEncoded

\* one call of the encoder, in a build of either kind
CallEncode ==
  /\ enc_out = NotEncoded
  /\ \E debug_assertions \in BOOLEAN :
       enc_out' = F32ToI16Le(enc_in, debug_assertions)
  /\ UNCHANGED <<engine_vars, queue, render_vars, button_pc, pot_pc, freq_pot,
                 vol_pot, pot_msg, poll_cycles, enc_in, last_applied, pending,
                 sends_in_call>>

NextEncode == CallEncode

SpecEncode == InitEncode /\ [][NextEncode]_vars

\* ---------------------------------------------------------------- claims, encoder
\* C24: the encoder accepts any sample: a call never fails, a sample above
\* 1.0 is encoded as the largest positive 16-bit value, and a sample below
\* -1.0 as the negative bound, never as a value of the opposite sign.
C24_EncoderSaturates ==
  enc_out # NotEncoded =>
    /\ enc_out.kind = "bytes"
    /\ (enc_in # NaN /\ enc_in > Scale)
         => FromLeBytes(enc_out.bytes[1], enc_out.bytes[2]) = I16_MAX_F32
    /\ (enc_in # NaN /\ enc_in < 0 - Scale)
         => FromLeBytes(enc_out.bytes[1], enc_out.bytes[2]) <= 0 - I16_MAX_F32

C27_DoubleToggleRestores ==
  [][(/\ DirectCall
      /\ last_applied'.kind = "ToggleVoice"
      /\ ValidIndex(last_applied'.arg))
       => \E i \in {last_applied'.arg} :
            /\ voices' = VoicesAfterToggle(voices, i)
            /\ voices'[i].active # voices[i].active
            /\ active_count' = CountAfterToggle(voices, active_count, i)
            /\ active_count_reciprocal' =
                 ReciprocalAfterToggle(voices, active_count, active_count_reciprocal, i)
            /\ VoicesAfterToggle(voices', i) = voices
            /\ CountAfterToggle(voices', active_count', i) = active_count
            /\ ReciprocalAfterToggle(voices', active_count',
                                     active_count_reciprocal', i)
                 = active_count_reciprocal]_vars

C27_Witness ==
  /\ last_applied = ToggleVoice(1)
  /\ ~voices[1].active
  /\ voices[0].active /\ voices[2].active
  /\ active_count = 2
  /\ active_count_reciprocal = Reciprocal(2)

\* ---------------------------------------------------------------- claims, short buffer
\* the step is a call of render
CallsRender == render_pc = "idle" /\ render_pc' # "idle"

\* the step applies a message that was waiting
AppliesPending == Len(pending') < Len(pending)

\* C28: a render call with fewer than 4 bytes returns 0 before the drain and
\* changes nothing: the queue holds the same messages in the same order, the
\* buffer is not written and no field of the Engine is modified; a message
\* that is waiting is applied only in the drain of a call with at least 4 bytes.
C28_ShortBufferChangesNothing ==
  /\ [][(CallsRender /\ Len(buffer') < 4)
          => /\ render_pc' = "returned"
             /\ ret' = 0
             /\ queue' = queue
             /\ pending' = pending
             /\ last_applied' = last_applied
             /\ buffer' = entry_buffer'
             /\ written' = {}
             /\ UNCHANGED engine_vars]_vars
  /\ [][AppliesPending
          => /\ render_pc = "drain"
             /\ Len(buffer) >= 4
             /\ queue' = Tail(queue)]_vars
  /\ []((render_pc # "idle" /\ Len(buffer) < 4)
          => /\ render_pc = "returned"
             /\ ret = 0
             /\ written = {}
             /\ buffer = entry_buffer)

C28_Witness ==
  /\ render_pc = "returned"
  /\ Len(buffer) = 3
  /\ ret = 0
  /\ Len(queue) >= 2
  /\ pending = queue
  /\ renders = 2
  /\ last_applied # NoMessage

\* ---------------------------------------------------------------- the system kept running
\* the buffers of the render calls that keep coming: one frame, two frames
LiveBufLens == {4, 8}

\* the messages of the two potentiometers at rest
RestFreq == Filtered(PotentiometerNew, (POT_MIN + POT_MAX) \div 2)
FreqMessage == map_freq(Normalized(RestFreq))
VolMessage == map_vol(Normalized(RestFreq))

\* the button of voice 0 has been pressed MESSAGE_QUEUE_SIZE times before the
\* first render call and is still down, and the potentiometer task, polling
\* the frequency pot for the first time, has found the queue full: it is
\* suspended in send with its message
InitLive ==
  /\ voices = [i \in Voices |-> VoiceNew(STARTING_FREQUENCY)]
  /\ selected_voice = None
  /\ active_count = 0
  /\ active_count_reciprocal = Scale
  /\ queue = [k \in 1 .. MESSAGE_QUEUE_SIZE |-> ButtonMessage(0)]
  /\ render_pc = "idle"
  /\ buffer = << >>
  /\ frame = 0
  /\ ret = 0
  /\ button_pc = [b \in ButtonVoices |-> "wait_high"]
  /\ pot_pc = Suspended("poll_freq")
  /\ freq_pot = [filtered |-> RestFreq, last_sent |-> Normalized(RestFreq)]
  /\ vol_pot = PotentiometerNew
  /\ pot_msg = FreqMessage
  /\ last_applied = NoMessage
  /\ pending = queue
  /\ owed = << >>
  /\ entry_len = 0
  /\ entry_buffer = << >>
  /\ written = {}
  /\ renders = 0
  /\ sends_in_call = 0
  /\ poll_cycles = 0
  /\ enc_in = 0
  /\ enc_out = NotEncoded

\* render is called again, without end and always with room for a frame
RenderAgain == \E n \in LiveBufLens : RenderEnter(n) /\ UNCHANGED renders

\* the executor runs the potentiometer task, which a receive has woken
PotWakes == PotSendCompletes /\ UNCHANGED <<sends_in_call, poll_cycles, encoder_vars>>

\* the button is let go and not pressed again
NextLive ==
  \/ RenderAgain
  \/ RenderReceive
  \/ RenderDrained
  \/ RenderFrame
  \/ RenderReturn
  \/ CallerTakes
  \/ \E b \in ButtonVoices :
       ButtonRelease(b) /\ UNCHANGED <<sends_in_call, poll_cycles, encoder_vars>>
  \/ \E r \in AdcReadings :
       PotPollFreq(r) /\ UNCHANGED <<sends_in_call, poll_cycles, encoder_vars>>
  \/ \E r \in AdcReadings :
       PotPollVol(r) /\ UNCHANGED <<sends_in_call, poll_cycles, encoder_vars>>
  \/ PotWakes
  \/ PotTimer /\ UNCHANGED <<sends_in_call, poll_cycles, encoder_vars>>

\* render runs to its return once called and is called again and again, and
\* the executor runs the sender that a receive has woken
LiveSpec ==
  /\ InitLive
  /\ [][NextLive]_vars
  /\ WF_vars(RenderStep)
  /\ WF_vars(CallerTakes)
  /\ WF_vars(RenderAgain)
  /\ WF_vars(PotWakes)

\* ---------------------------------------------------------------- claims, suspended send
\* the potentiometer task is suspended in send, holding message m
Holding(m) == pot_pc \in {"send_freq", "send_vol"} /\ pot_msg = m

\* message m is in the queue
Queued(m) == \E k \in 1 .. Len(queue) : queue[k] = m

\* the step passes a reading through the deadband
PassesInStep ==
  freq_pot'.last_sent # freq_pot.last_sent \/ vol_pot'.last_sent # vol_pot.last_sent

LiveStart ==
  /\ queue = [k \in 1 .. MESSAGE_QUEUE_SIZE |-> ButtonMessage(0)]
  /\ render_pc = "idle" /\ renders = 0
  /\ button_pc[0] = "wait_high"
  /\ pot_pc = "send_freq" /\ pot_msg = FreqMessage
  /\ freq_pot = [filtered |-> RestFreq, last_sent |-> Normalized(RestFreq)]
  /\ vol_pot = PotentiometerNew
  /\ last_applied = NoMessage /\ pending = queue

====
